---- MODULE Spec2Model ----
(***************************************************************************)
(* Food waste management app: the ETL that turns four CSV files into a     *)
(* SQLite store (etl_init_db.py) and the Streamlit query layer over that   *)
(* store (app.py).                                                         *)
(*                                                                         *)
(* Data representation                                                     *)
(*   - a raw CSV key cell is text: an integer literal, blank, or junk;     *)
(*   - a pandas nullable value (Int64, date, datetime) is a record         *)
(*     [na, n]; after astype(int) a key is a plain integer;                *)
(*   - a categorical text cell is [lead, text, trail]: `text` carries no   *)
(*     surrounding whitespace, lead/trail count the blanks around it;      *)
(*   - a DataFrame is a sequence of rows, each carrying its index `idx`    *)
(*     (the 0-based source line), which pandas keeps through every filter. *)
(***************************************************************************)
EXTENDS Integers, Sequences, FiniteSets, TLC

VARIABLES
    files,        \* the four CSV sources under ./data, and schema.sql
    today,        \* the current UTC day number
    out,          \* what _read_csvs last returned (or that it raised)
    store,        \* foodwaste.db
    last,         \* outcome of the last build_database / run_query call
    runs,         \* build outcomes since the sources were last edited
    view,         \* the dashboard's inputs and the two result tables
    lib,          \* the SQL Queries tab: statements, loop index, report
    ops           \* source edits and form submissions so far

vars == <<files, today, out, store, last, runs, view, lib, ops>>

----------------------------------------------------------------------------
(* Bounds of the model *)

\* rows appended to the fixture CSVs by the environment (SpecEtl, SpecFields, Spec)
MaxExtra == 2
\* blanks around a categorical text cell
MaxPad == 1

----------------------------------------------------------------------------
(* Cells *)

Int64(n) == [na |-> FALSE, n |-> n]
NA == [na |-> TRUE, n |-> 0]

IntText(n) == [k |-> "int", n |-> n]
DateText(d) == [k |-> "date", n |-> d]
BlankText == [k |-> "blank", n |-> 0]
JunkText == [k |-> "junk", n |-> 0]

Txt(s) == [lead |-> 0, text |-> s, trail |-> 0]
Padded(l, s, t) == [lead |-> l, text |-> s, trail |-> t]

\* str.strip(): the text without the blanks around it
Strip(v) == v.text

\* Python string equality of a raw cell with a literal without surrounding blanks
IsLiteral(v, s) == v.lead = 0 /\ v.trail = 0 /\ v.text = s

----------------------------------------------------------------------------
(* Allowed categorical values, etl_init_db.py lines 88-96 *)

ProviderTypes == {"Restaurant", "Grocery Store", "Supermarket", "Bakery", "Caterer", "Other"}
ReceiverTypes == {"NGO", "Community Center", "Individual", "Shelter", "Other"}
FoodTypes == {"Vegetarian", "Non-Vegetarian", "Vegan", "Other"}
MealTypes == {"Breakfast", "Lunch", "Dinner", "Snacks", "Other"}
Statuses == {"Pending", "Completed", "Cancelled"}

\* normalize(value, allowed, default): strip, keep when allowed, else the default
NormalizeKeepsRaw(value, allowed, default) ==
    IF IsLiteral(value, value.text) /\ value.text \in allowed THEN value.text ELSE default

normalize(value, allowed, default) ==
    LET v == Strip(value) IN IF v \in allowed THEN v ELSE default

----------------------------------------------------------------------------
(* The dummy dataset, written when a CSV is missing *)

DummyProviders(d) == <<
    [Provider_ID |-> IntText(1), Type |-> Txt("Restaurant"), City |-> "Bengaluru"],
    [Provider_ID |-> IntText(2), Type |-> Txt("Grocery Store"), City |-> "Chennai"] >>

DummyReceivers(d) == <<
    [Receiver_ID |-> IntText(1), Type |-> Txt("NGO"), City |-> "Bengaluru"],
    [Receiver_ID |-> IntText(2), Type |-> Txt("Shelter"), City |-> "Chennai"] >>

DummyListings(d) == <<
    [Food_ID |-> IntText(101), Quantity |-> 20, Expiry_Date |-> DateText(d + 1),
     Provider_ID |-> IntText(1), Provider_Type |-> "Restaurant", Location |-> "Bengaluru",
     Food_Type |-> Txt("Vegetarian"), Meal_Type |-> Txt("Lunch")],
    [Food_ID |-> IntText(102), Quantity |-> 50, Expiry_Date |-> DateText(d + 2),
     Provider_ID |-> IntText(2), Provider_Type |-> "Grocery Store", Location |-> "Chennai",
     Food_Type |-> Txt("Vegan"), Meal_Type |-> Txt("Breakfast")] >>

DummyClaimsNoCancelled(d) == <<
    [Claim_ID |-> IntText(1001), Food_ID |-> IntText(101), Receiver_ID |-> IntText(1),
     Status |-> Txt("Completed"), Timestamp |-> DateText(d)],
    [Claim_ID |-> IntText(1002), Food_ID |-> IntText(101), Receiver_ID |-> IntText(1),
     Status |-> Txt("Pending"), Timestamp |-> DateText(d)] >>

DummyClaims(d) == <<
    [Claim_ID |-> IntText(1001), Food_ID |-> IntText(101), Receiver_ID |-> IntText(1),
     Status |-> Txt("Completed"), Timestamp |-> DateText(d)],
    [Claim_ID |-> IntText(1002), Food_ID |-> IntText(101), Receiver_ID |-> IntText(1),
     Status |-> Txt("Pending"), Timestamp |-> DateText(d)],
    [Claim_ID |-> IntText(1003), Food_ID |-> IntText(102), Receiver_ID |-> IntText(2),
     Status |-> Txt("Cancelled"), Timestamp |-> DateText(d)] >>

Tables == <<"providers", "receivers", "food_listings", "claims">>
TableSet == {"providers", "receivers", "food_listings", "claims"}

Dummy(t, d) ==
    CASE t = "providers" -> DummyProviders(d)
      [] t = "receivers" -> DummyReceivers(d)
      [] t = "food_listings" -> DummyListings(d)
      [] t = "claims" -> DummyClaims(d)

\* A CSV file: present or not, its data rows, and whether its header names a
\* column the schema does not declare.
Csv(rows) == [exists |-> TRUE, rows |-> rows, extraCol |-> FALSE]
NoCsv == [exists |-> FALSE, rows |-> <<>>, extraCol |-> FALSE]

\* _ensure_dummy_data_if_missing: each missing CSV is written, the others are left alone
EnsureAlwaysRewrites(f, d) ==
    [t \in TableSet |-> Csv(Dummy(t, d))] @@ f

EnsureDummyDataIfMissing(f, d) ==
    [t \in TableSet |-> IF f[t].exists THEN f[t] ELSE Csv(Dummy(t, d))] @@ f

----------------------------------------------------------------------------
(* _read_csvs *)

PrimaryKey(t) ==
    CASE t = "providers" -> "Provider_ID"
      [] t = "receivers" -> "Receiver_ID"
      [] t = "food_listings" -> "Food_ID"
      [] t = "claims" -> "Claim_ID"

\* the columns read with dtype Int64
IdColumns(t) ==
    CASE t = "providers" -> {"Provider_ID"}
      [] t = "receivers" -> {"Receiver_ID"}
      [] t = "food_listings" -> {"Food_ID", "Provider_ID"}
      [] t = "claims" -> {"Claim_ID", "Food_ID", "Receiver_ID"}

\* the columns parsed with to_datetime(errors="coerce")
DateColumns(t) ==
    CASE t = "food_listings" -> {"Expiry_Date"}
      [] t = "claims" -> {"Timestamp"}
      [] OTHER -> {}

\* read_csv(dtype Int64, keep_default_na=False): an integer literal parses, a blank
\* becomes <NA>, anything else makes read_csv raise ValueError
ParseInt64(cell) == IF cell.k = "int" THEN Int64(cell.n) ELSE NA

\* to_datetime(errors="coerce"): what cannot be parsed becomes NaT
ParseDate(cell) == IF cell.k = "date" THEN Int64(cell.n) ELSE NA

ReadCsvRaises(t, rows) ==
    \E i \in 1..Len(rows) : \E c \in IdColumns(t) : rows[i][c].k = "junk"

ParseRow(t, row, i) ==
    [c \in DOMAIN row |->
        IF c \in IdColumns(t) THEN ParseInt64(row[c])
        ELSE IF c \in DateColumns(t) THEN ParseDate(row[c])
        ELSE row[c]] @@ [idx |-> i - 1]

ReadCsv(t, rows) == [i \in 1..Len(rows) |-> ParseRow(t, rows[i], i)]

\* drop_duplicates(subset=[key]): the first row of each key value is kept (<NA>
\* counts as a value)
DropDuplicatesKeepLast(df, key) ==
    LET n == Len(df)
        kept == {i \in 1..n : \A j \in (i+1)..n : df[j][key] # df[i][key]}
        RECURSIVE Pick(_)
        Pick(i) == IF i > n THEN <<>>
                   ELSE (IF i \in kept THEN <<df[i]>> ELSE <<>>) \o Pick(i + 1)
    IN Pick(1)

DropDuplicates(df, key) ==
    LET n == Len(df)
        kept == {i \in 1..n : \A j \in 1..(i-1) : df[j][key] # df[i][key]}
        RECURSIVE Pick(_)
        Pick(i) == IF i > n THEN <<>>
                   ELSE (IF i \in kept THEN <<df[i]>> ELSE <<>>) \o Pick(i + 1)
    IN Pick(1)

\* dropna(subset=[key])
DropNa(df, key) ==
    LET NotNa(r) == ~r[key].na IN SelectSeq(df, NotNa)

Dedup(t, df) == DropNa(DropDuplicates(df, PrimaryKey(t)), PrimaryKey(t))

\* Series.astype(int) on an Int64 column raises when a value is <NA>
AstypeIntRaises(df, col) == \E i \in 1..Len(df) : df[i][col].na

AstypeInt(df, cols) ==
    [i \in 1..Len(df) |->
        [c \in DOMAIN df[i] |-> IF c \in cols THEN df[i][c].n ELSE df[i][c]]]

Column(df, col) == {df[i][col] : i \in 1..Len(df)}

\* listings[listings["Provider_ID"].isin(valid_provider_ids)]
ListingsKeepAll(listings, providers) == listings

FilterListings(listings, providers) ==
    LET valid_provider_ids == Column(providers, "Provider_ID")
        Ok(r) == r.Provider_ID \in valid_provider_ids
    IN SelectSeq(listings, Ok)

\* claims[Food_ID.isin(valid_food_ids) & Receiver_ID.isin(valid_receiver_ids)]
FilterClaims(claims, listings, receivers) ==
    LET valid_food_ids == Column(listings, "Food_ID")
        valid_receiver_ids == Column(receivers, "Receiver_ID")
        Ok(r) == r.Food_ID \in valid_food_ids /\ r.Receiver_ID \in valid_receiver_ids
    IN SelectSeq(claims, Ok)

MapColumn(df, col, allowed, default) ==
    [i \in 1..Len(df) |-> [df[i] EXCEPT ![col] = normalize(@, allowed, default)]]

Raised == [raised |-> TRUE, providers |-> <<>>, receivers |-> <<>>,
           food_listings |-> <<>>, claims |-> <<>>]

\* _read_csvs over the four files, in the order of the code
ReadCsvs(f) ==
    IF \E t \in TableSet : ReadCsvRaises(t, f[t].rows) THEN Raised
    ELSE
    LET providers0 == Dedup("providers", ReadCsv("providers", f["providers"].rows))
        receivers0 == Dedup("receivers", ReadCsv("receivers", f["receivers"].rows))
        listings0 == Dedup("food_listings", ReadCsv("food_listings", f["food_listings"].rows))
        claims0 == Dedup("claims", ReadCsv("claims", f["claims"].rows))
    IN
    IF \/ AstypeIntRaises(listings0, "Provider_ID")
       \/ AstypeIntRaises(claims0, "Food_ID")
       \/ AstypeIntRaises(claims0, "Receiver_ID")
    THEN Raised
    ELSE
    LET providers1 == AstypeInt(providers0, IdColumns("providers"))
        receivers1 == AstypeInt(receivers0, IdColumns("receivers"))
        listings1 == AstypeInt(listings0, IdColumns("food_listings"))
        claims1 == AstypeInt(claims0, IdColumns("claims"))
        listings2 == FilterListings(listings1, providers1)
        claims2 == FilterClaims(claims1, listings2, receivers1)
    IN [raised |-> FALSE,
        providers |-> MapColumn(providers1, "Type", ProviderTypes, "Other"),
        receivers |-> MapColumn(receivers1, "Type", ReceiverTypes, "Other"),
        food_listings |-> MapColumn(MapColumn(listings2, "Food_Type", FoodTypes, "Other"),
                                    "Meal_Type", MealTypes, "Other"),
        claims |-> MapColumn(claims2, "Status", Statuses, "Pending")]

----------------------------------------------------------------------------
(* Normalization on its own: the fixture files with raw rows appended *)

Today0 == 10

None == [k |-> "none"]

\* text of a key cell: one of the given integers, blank, or junk
KeyCells(ids) == {IntText(n) : n \in ids} \cup {BlankText, JunkText}

\* Raw rows the environment may append: keys that repeat a fixture key (1, 101,
\* 1001), new keys (3, 103, 1004), blank and junk cells; the other fields are valid.
ExtraRows(t) ==
    CASE t = "providers" ->
           {[Provider_ID |-> k, Type |-> Txt("Bakery"), City |-> "Mysuru"] :
                k \in KeyCells({1, 3})}
      [] t = "receivers" ->
           {[Receiver_ID |-> k, Type |-> Txt("Individual"), City |-> "Mysuru"] :
                k \in KeyCells({1, 3})}
      [] t = "food_listings" ->
           {[Food_ID |-> k, Quantity |-> 5, Expiry_Date |-> DateText(Today0),
             Provider_ID |-> p, Provider_Type |-> "Bakery", Location |-> "Mysuru",
             Food_Type |-> Txt("Other"), Meal_Type |-> Txt("Snacks")] :
                k \in KeyCells({101, 103}), p \in KeyCells({1, 3})}
      [] t = "claims" ->
           {[Claim_ID |-> k, Food_ID |-> f, Receiver_ID |-> r,
             Status |-> Txt("Pending"), Timestamp |-> DateText(Today0)] :
                k \in KeyCells({1001, 1004}), f \in KeyCells({101, 103}),
                r \in KeyCells({1, 3})}

FixtureFiles(d) ==
    [providers |-> Csv(DummyProviders(d)), receivers |-> Csv(DummyReceivers(d)),
     food_listings |-> Csv(DummyListings(d)), claims |-> Csv(DummyClaims(d)),
     schema |-> "ok"]

AppendRows(f, t, rows) == [f EXCEPT ![t].rows = @ \o rows]

IdleStore == [exists |-> FALSE]
IdleView == None
IdleLib == None

InitEtl ==
    /\ today = Today0
    /\ \E np \in 0..MaxExtra : \E nr \in 0..(MaxExtra - np) :
       \E nl \in 0..(MaxExtra - np - nr) : \E nc \in 0..(MaxExtra - np - nr - nl) :
       \E xp \in [1..np -> ExtraRows("providers")] :
       \E xr \in [1..nr -> ExtraRows("receivers")] :
       \E xl \in [1..nl -> ExtraRows("food_listings")] :
       \E xc \in [1..nc -> ExtraRows("claims")] :
          files = AppendRows(AppendRows(AppendRows(AppendRows(FixtureFiles(Today0),
                    "providers", xp), "receivers", xr), "food_listings", xl), "claims", xc)
    /\ out = None
    /\ store = IdleStore
    /\ last = None
    /\ runs = <<>>
    /\ view = IdleView
    /\ lib = IdleLib
    /\ ops = 0

\* providers, receivers, listings, claims = _read_csvs()
Normalize ==
    /\ out = None
    /\ out' = ReadCsvs(files)
    /\ UNCHANGED <<files, today, store, last, runs, view, lib, ops>>

NextEtl == Normalize

SpecEtl == InitEtl /\ [][NextEtl]_vars

----------------------------------------------------------------------------
(* Normalization of the text fields: one appended row per table, valid keys *)

Pads == 0..MaxPad

\* the raw texts tried in the categorical columns
SampleTexts == {"Restaurant", "NGO", "Vegan", "Lunch", "Completed", "Other", "Pending",
                "", "Unknown"}

RawStrings == {Padded(l, s, t) : l \in Pads, s \in SampleTexts, t \in Pads}

DateCells == {DateText(Today0), BlankText, JunkText}

FieldFiles(s1, s2, dc) ==
    AppendRows(AppendRows(AppendRows(AppendRows(FixtureFiles(Today0),
        "providers", <<[Provider_ID |-> IntText(3), Type |-> s1, City |-> "Mysuru"]>>),
        "receivers", <<[Receiver_ID |-> IntText(3), Type |-> s2, City |-> "Mysuru"]>>),
        "food_listings", <<[Food_ID |-> IntText(103), Quantity |-> 5, Expiry_Date |-> dc,
             Provider_ID |-> IntText(3), Provider_Type |-> "Bakery", Location |-> "Mysuru",
             Food_Type |-> s1, Meal_Type |-> s2]>>),
        "claims", <<[Claim_ID |-> IntText(1004), Food_ID |-> IntText(103),
             Receiver_ID |-> IntText(3), Status |-> s2, Timestamp |-> dc]>>)

InitFields ==
    /\ today = Today0
    /\ \E s1 \in RawStrings : \E s2 \in RawStrings : \E dc \in DateCells :
          files = FieldFiles(s1, s2, dc)
    /\ out = None
    /\ store = IdleStore
    /\ last = None
    /\ runs = <<>>
    /\ view = IdleView
    /\ lib = IdleLib
    /\ ops = 0

SpecFields == InitFields /\ [][NextEtl]_vars

----------------------------------------------------------------------------
(* Claims about normalization *)

Normalized == out # None /\ ~out.raised

Rows(df) == {df[i] : i \in 1..Len(df)}

\* the raw row an output row came from
RawOf(t, r) == files[t].rows[r.idx + 1]

\* C1: the output of normalization is referentially closed: every listing's
\* Provider_ID is a provider of the output, every claim's Food_ID and Receiver_ID
\* are a listing and a receiver of the output.
C1_ReferentiallyClosed ==
    Normalized =>
        /\ \A l \in Rows(out.food_listings) :
              l.Provider_ID \in Column(out.providers, "Provider_ID")
        /\ \A c \in Rows(out.claims) :
              /\ c.Food_ID \in Column(out.food_listings, "Food_ID")
              /\ c.Receiver_ID \in Column(out.receivers, "Receiver_ID")

\* a listing was removed for its missing provider, and a claim on it, whose
\* receiver survived, was removed with it
C1_Witness ==
    /\ Normalized
    /\ \E i \in 1..Len(files["food_listings"].rows) :
       \E j \in 1..Len(files["claims"].rows) :
          LET l == files["food_listings"].rows[i]
              c == files["claims"].rows[j]
          IN /\ l.Food_ID.k = "int" /\ l.Provider_ID.k = "int"
             /\ l.Provider_ID.n \notin Column(out.providers, "Provider_ID")
             /\ l.Food_ID.n \notin Column(out.food_listings, "Food_ID")
             /\ c.Food_ID = l.Food_ID
             /\ c.Claim_ID.k = "int" /\ c.Receiver_ID.k = "int"
             /\ c.Receiver_ID.n \in Column(out.receivers, "Receiver_ID")
             /\ c.Claim_ID.n \notin Column(out.claims, "Claim_ID")

\* C2: in every output table no two rows share a primary key, no row came from a
\* blank (null) key, and each row is the first source row with its key.
C2_UniqueKeysFirstKept ==
    Normalized =>
        \A t \in TableSet :
            LET df == out[t]
                pk == PrimaryKey(t)
            IN /\ \A i, j \in 1..Len(df) : i # j => df[i][pk] # df[j][pk]
               /\ \A r \in Rows(df) :
                     /\ RawOf(t, r)[pk] = IntText(r[pk])
                     /\ \A j \in 1..r.idx : files[t].rows[j][pk] # IntText(r[pk])

\* a key occurs twice in a source, a blank key occurs too, and the key survives
C2_Witness ==
    /\ Normalized
    /\ \E t \in TableSet :
          LET raw == files[t].rows
              pk == PrimaryKey(t)
          IN /\ \E i, j \in 1..Len(raw) :
                   /\ i < j /\ raw[i][pk] = raw[j][pk] /\ raw[i][pk].k = "int"
                   /\ raw[i][pk].n \in Column(out[t], pk)
             /\ \E i \in 1..Len(raw) : raw[i][pk] = BlankText

\* C3 (as claimed): loading and normalization never raise, whatever the cells hold.
C3_NeverRaises == out # None => ~out.raised

Allowed(t, col) ==
    CASE col = "Type" /\ t = "providers" -> ProviderTypes
      [] col = "Type" /\ t = "receivers" -> ReceiverTypes
      [] col = "Food_Type" -> FoodTypes
      [] col = "Meal_Type" -> MealTypes
      [] col = "Status" -> Statuses

Default(col) == IF col = "Status" THEN "Pending" ELSE "Other"

Categorical(t) ==
    CASE t = "providers" -> {"Type"}
      [] t = "receivers" -> {"Type"}
      [] t = "food_listings" -> {"Food_Type", "Meal_Type"}
      [] t = "claims" -> {"Status"}

\* C4 (amended): every categorical value of the output is in its allowed set; a raw
\* value whose text without the surrounding blanks is allowed becomes that text, any
\* other (blank included) becomes the default; and no row is rejected for it.
C4_CategoricalNormalized ==
    Normalized =>
        \A t \in TableSet :
            /\ Len(out[t]) = Len(files[t].rows)
            /\ \A r \in Rows(out[t]) : \A col \in Categorical(t) :
                  LET raw == RawOf(t, r)[col]
                  IN /\ r[col] \in Allowed(t, col)
                     /\ (raw.text \in Allowed(t, col) => r[col] = raw.text)
                     /\ (raw.text \notin Allowed(t, col) => r[col] = Default(col))

\* an unknown value, a blank one and a padded allowed one were all normalized
C4_Witness ==
    /\ Normalized
    /\ \E r \in Rows(out.providers) :
          LET raw == RawOf("providers", r).Type
          IN raw.text = "Restaurant" /\ raw.lead > 0 /\ r.Type = "Restaurant"
    /\ \E r \in Rows(out.receivers) :
          RawOf("receivers", r).Type.text = "" /\ r.Type = "Other"
    /\ \E r \in Rows(out.claims) :
          RawOf("claims", r).Status.text = "" /\ r.Status = "Pending"

\* C4 (as claimed): every raw value that is not itself a member of the allowed set
\* is replaced by the default.
C4_OutsideBecomesDefault ==
    Normalized =>
        \A t \in TableSet : \A r \in Rows(out[t]) : \A col \in Categorical(t) :
            LET raw == RawOf(t, r)[col]
            IN ~(\E a \in Allowed(t, col) : IsLiteral(raw, a)) => r[col] = Default(col)

----------------------------------------------------------------------------
(* The store, foodwaste.db: the file may be missing; once schema.sql has run it
   holds the four tables.  A table is the set of its rows (keys are unique). *)

NoStore == [exists |-> FALSE, schema |-> FALSE, providers |-> {}, receivers |-> {},
            food_listings |-> {}, claims |-> {}]

\* sqlite3.connect creates the file; it holds no table until the schema is applied
EmptyStore == [NoStore EXCEPT !.exists = TRUE]

\* DataFrame.to_sql(index=False): the rows without the index
DbRow(r) == [c \in (DOMAIN r) \ {"idx"} |-> r[c]]
DbRows(df) == {DbRow(df[i]) : i \in 1..Len(df)}

----------------------------------------------------------------------------
(* The dashboard: sidebar filters, filtered listings, expiring soon *)

\* rows of food_listings in the query specification
MaxListings == 2
\* values selected over the four multiselects together
MaxSel == 2
\* the largest day count tried on the slider (the slider itself goes up to 30)
MaxDays == 2

\* sequences without repetition over S, of length at most n (a multiselect's value)
RECURSIVE Selections(_, _)
Selections(S, n) ==
    IF n = 0 THEN {<<>>}
    ELSE {<<>>} \cup UNION {{<<x>> \o rest : rest \in Selections(S \ {x}, n - 1)} : x \in S}

Range(q) == {q[i] : i \in 1..Len(q)}

\* lines 56-59: the options offered by each multiselect
CityOptions(db) == {r.City : r \in db.providers} \cup {r.Location : r \in db.food_listings}
ProviderTypeOptions(db) == {r.Type : r \in db.providers}
FoodTypeOptions(db) == {r.Food_Type : r \in db.food_listings}
MealTypeOptions(db) == {r.Meal_Type : r \in db.food_listings}

\* dict.update({f"{prefix}{i}": v for i, v in enumerate(values)}): an existing key
\* keeps its place and takes the new value, a new key goes to the end
RECURSIVE DictUpdate(_, _, _, _)
DictUpdate(params, prefix, values, i) ==
    IF i > Len(values) THEN params
    ELSE LET key == <<prefix, i - 1>>
             at == {j \in 1..Len(params) : params[j].key = key}
             put == IF at = {}
                    THEN Append(params, [key |-> key, val |-> values[i]])
                    ELSE [j \in 1..Len(params) |->
                            IF j \in at THEN [key |-> key, val |-> values[i]] ELSE params[j]]
         IN DictUpdate(put, prefix, values, i + 1)

\* the key prefixes of lines 90-93
ParamPrefixSame(col) == "p"

ParamPrefix(col) ==
    CASE col = "Location" -> "p"
      [] col = "Provider_Type" -> "t"
      [] col = "Food_Type" -> "ft"
      [] col = "Meal_Type" -> "mt"

FilterColumns == <<"Location", "Provider_Type", "Food_Type", "Meal_Type">>

\* lines 88-93: one "AND col IN (?,...,?)" per non-empty filter, and the params dict
RECURSIVE BuildQuery(_, _, _, _)
BuildQuery(f, k, query, params) ==
    IF k > Len(FilterColumns) THEN [query |-> query, params |-> params]
    ELSE LET col == FilterColumns[k]
         IN IF f[col] = <<>> THEN BuildQuery(f, k + 1, query, params)
            ELSE BuildQuery(f, k + 1,
                            Append(query, [col |-> col, n |-> Len(f[col])]),
                            DictUpdate(params, ParamPrefix(col), f[col], 1))

\* line 95: tuple(params.values())
ParamTuple(params) == [j \in 1..Len(params) |-> params[j].val]

RECURSIVE Placeholders(_)
Placeholders(query) ==
    IF query = <<>> THEN 0 ELSE Head(query).n + Placeholders(Tail(query))

\* the values bound to the placeholders of clause k, positionally
BoundTo(query, tuple, k) ==
    LET before == Placeholders(SubSeq(query, 1, k - 1))
    IN {tuple[j] : j \in (before + 1)..(before + query[k].n)}

QueryError == [err |-> TRUE, rows |-> {}]

\* SELECT * FROM food_listings WHERE 1=1 AND ... with positional parameters: sqlite3
\* raises when the number of values is not the number of placeholders
ExecFiltered(db, query, tuple) ==
    IF Placeholders(query) # Len(tuple) THEN QueryError
    ELSE [err |-> FALSE,
          rows |-> {r \in db.food_listings :
                      \A k \in 1..Len(query) : r[query[k].col] \in BoundTo(query, tuple, k)}]

\* lines 88-97
ListingsDf(db, f) ==
    LET b == BuildQuery(f, 1, <<>>, <<>>)
    IN ExecFiltered(db, b.query, ParamTuple(b.params))

\* ORDER BY Expiry_Date: ascending; rows of one date in key order
RECURSIVE OrderByExpiry(_)
OrderByExpiry(rows) ==
    IF rows = {} THEN <<>>
    ELSE LET first == CHOOSE r \in rows : \A o \in rows :
                         \/ r.Expiry_Date.n < o.Expiry_Date.n
                         \/ r.Expiry_Date.n = o.Expiry_Date.n /\ r.Food_ID <= o.Food_ID
         IN <<first>> \o OrderByExpiry(rows \ {first})

\* lines 102-105: WHERE date(Expiry_Date) <= date('now', '+N day') ORDER BY Expiry_Date;
\* a NULL date compares as NULL and the row is left out
ExpiringDf(db, now, days) ==
    OrderByExpiry({r \in db.food_listings :
                      ~r.Expiry_Date.na /\ r.Expiry_Date.n <= now + days})

\* Lines 87-99, the filtered listings: the sidebar's multiselects hold options of the
\* store (at most MaxSel values over the four).  The result depends on the store and
\* the sidebar alone, so each run starts from a blank page.
FilteredListings ==
    /\ store.exists /\ store.schema
    /\ view = None
    /\ \E fc \in Selections(CityOptions(store), MaxSel) :
       \E fp \in Selections(ProviderTypeOptions(store), MaxSel - Len(fc)) :
       \E ff \in Selections(FoodTypeOptions(store), MaxSel - Len(fc) - Len(fp)) :
       \E fm \in Selections(MealTypeOptions(store), MaxSel - Len(fc) - Len(fp) - Len(ff)) :
          LET f == [Location |-> fc, Provider_Type |-> fp, Food_Type |-> ff, Meal_Type |-> fm]
          IN view' = [k |-> "filtered", f |-> f, listings_df |-> ListingsDf(store, f)]
    /\ UNCHANGED <<files, today, out, store, last, runs, lib, ops>>

\* Lines 101-107, expiring soon: the slider holds days
ExpiringSoon ==
    /\ store.exists /\ store.schema
    /\ view = None
    /\ \E days \in 1..MaxDays :
          view' = [k |-> "expiring", days |-> days,
                   expiring_df |-> ExpiringDf(store, today, days)]
    /\ UNCHANGED <<files, today, out, store, last, runs, lib, ops>>

NextQuery == FilteredListings \/ ExpiringSoon

QueryProviders ==
    {[Provider_ID |-> 1, Type |-> "Restaurant", City |-> "Bengaluru"],
     [Provider_ID |-> 2, Type |-> "Grocery Store", City |-> "Chennai"]}

ListingRow(id, loc, pt, ft, mt, exp) ==
    [Food_ID |-> id, Quantity |-> 5, Expiry_Date |-> exp, Provider_ID |-> 1,
     Provider_Type |-> pt, Location |-> loc, Food_Type |-> ft, Meal_Type |-> mt]

\* listings that differ in the four filtered fields
FilterRows(id) ==
    {ListingRow(id, loc, pt, ft, mt, Int64(Today0 + 1)) :
        loc \in {"Bengaluru", "Chennai"}, pt \in {"Restaurant", "Grocery Store"},
        ft \in {"Vegan", "Other"}, mt \in {"Lunch", "Dinner"}}

\* listings that differ in the expiry date: none, yesterday, today, ..., the day
\* after the longest window
ExpiryRows(id) ==
    {ListingRow(id, "Bengaluru", "Restaurant", "Vegan", "Lunch", e) :
        e \in {NA} \cup {Int64(d) : d \in (Today0 - 1)..(Today0 + MaxDays + 1)}}

InitQuery ==
    /\ today = Today0
    /\ files = FixtureFiles(Today0)
    /\ out = None
    /\ \E n \in 0..MaxListings :
          \/ \E rows \in [1..n -> FilterRows(0)] :
                store = [EmptyStore EXCEPT !.schema = TRUE, !.providers = QueryProviders,
                           !.food_listings = {[rows[i] EXCEPT !.Food_ID = i] : i \in 1..n}]
          \/ \E rows \in [1..n -> ExpiryRows(0)] :
                store = [EmptyStore EXCEPT !.schema = TRUE, !.providers = QueryProviders,
                           !.food_listings = {[rows[i] EXCEPT !.Food_ID = i] : i \in 1..n}]
    /\ last = None
    /\ runs = <<>>
    /\ view = IdleView
    /\ lib = IdleLib
    /\ ops = 0

SpecQuery == InitQuery /\ [][NextQuery]_vars

----------------------------------------------------------------------------
(* Claims about the dashboard queries *)

Sorted(df) == \A i, j \in 1..Len(df) : i < j => df[i].Expiry_Date.n <= df[j].Expiry_Date.n

\* C5 (as claimed): the expiring-soon table holds exactly the listings whose expiry
\* date d satisfies today <= d <= today + N, in ascending order of d.
C5_ExpiringWithinWindow ==
    view.k = "expiring" =>
        /\ Rows(view.expiring_df) =
              {r \in store.food_listings :
                  /\ ~r.Expiry_Date.na
                  /\ today <= r.Expiry_Date.n
                  /\ r.Expiry_Date.n <= today + view.days}
        /\ Sorted(view.expiring_df)

Selected(f, col) == Range(f[col])

\* C6: the filtered listings are exactly the listings that, for every non-empty
\* filter, hold one of its values in that field; an empty filter restricts nothing.
C6_FilteredListings ==
    view.k = "filtered" =>
        /\ ~view.listings_df.err
        /\ view.listings_df.rows =
              {r \in store.food_listings :
                  \A k \in 1..Len(FilterColumns) :
                      LET col == FilterColumns[k]
                      IN view.f[col] # <<>> => r[col] \in Selected(view.f, col)}

\* two fields are filtered at once and only some of the listings are returned
C6_Witness ==
    /\ view.k = "filtered"
    /\ Cardinality({k \in 1..Len(FilterColumns) : view.f[FilterColumns[k]] # <<>>}) >= 2
    /\ view.listings_df.rows # {}
    /\ view.listings_df.rows # store.food_listings

\* the city filter alone, and no filter at all
C6_WitnessCity ==
    /\ view.k = "filtered"
    /\ view.f["Location"] = <<"Bengaluru">>
    /\ \E r \in store.food_listings : r.Location = "Chennai"
    /\ \E r \in view.listings_df.rows : r.Location = "Bengaluru"

----------------------------------------------------------------------------
(* The constraints schema.sql declares: primary keys, the foreign keys
   Listing -> Provider, Claim -> Listing, Claim -> Receiver, and the CHECKs on the
   enumerated columns. *)

Keys(db, t) == {r[PrimaryKey(t)] : r \in db[t]}

DuplicateKey(db, t, row) == row[PrimaryKey(t)] \in Keys(db, t)

MissingParent(db, t, row) ==
    CASE t = "food_listings" -> row.Provider_ID \notin Keys(db, "providers")
      [] t = "claims" -> \/ row.Food_ID \notin Keys(db, "food_listings")
                         \/ row.Receiver_ID \notin Keys(db, "receivers")
      [] OTHER -> FALSE

OutsideEnum(t, row) == \E col \in Categorical(t) : row[col] \notin Allowed(t, col)

\* deleting a row that other rows still reference
HasChildren(db, t, key) ==
    CASE t = "food_listings" -> \E c \in db.claims : c.Food_ID = key
      [] t = "providers" -> \E l \in db.food_listings : l.Provider_ID = key
      [] t = "receivers" -> \E c \in db.claims : c.Receiver_ID = key
      [] OTHER -> FALSE

\* a statement: [op, t, row] for INSERT, [op, t, key, set] for UPDATE, [op, t, key]
\* for DELETE
Violates(db, stmt) ==
    CASE stmt.op = "insert" ->
            \/ DuplicateKey(db, stmt.t, stmt.row)
            \/ MissingParent(db, stmt.t, stmt.row)
            \/ OutsideEnum(stmt.t, stmt.row)
      [] stmt.op = "delete" -> HasChildren(db, stmt.t, stmt.key)
      [] OTHER -> FALSE

\* what SQLite enforces on a connection: foreign keys only with PRAGMA foreign_keys = ON
Rejects(db, stmt, fk) ==
    CASE stmt.op = "insert" ->
            \/ DuplicateKey(db, stmt.t, stmt.row)
            \/ fk /\ MissingParent(db, stmt.t, stmt.row)
            \/ OutsideEnum(stmt.t, stmt.row)
      [] stmt.op = "delete" -> fk /\ HasChildren(db, stmt.t, stmt.key)
      [] OTHER -> FALSE

Apply(db, stmt) ==
    CASE stmt.op = "insert" -> [db EXCEPT ![stmt.t] = @ \cup {stmt.row}]
      [] stmt.op = "delete" ->
            [db EXCEPT ![stmt.t] = {r \in @ : r[PrimaryKey(stmt.t)] # stmt.key}]
      [] stmt.op = "update" ->
            [db EXCEPT ![stmt.t] =
                {IF r[PrimaryKey(stmt.t)] = stmt.key
                 THEN [c \in DOMAIN r |-> IF c \in DOMAIN stmt.set THEN stmt.set[c] ELSE r[c]]
                 ELSE r : r \in @}]

----------------------------------------------------------------------------
(* build_database *)

\* lines 110-113: the old file is removed, connect creates a new one
RemoveKeepsStore(db) == [db EXCEPT !.exists = TRUE]

RemoveAndConnect(db) == EmptyStore

\* _run_schema: open(SCHEMA_PATH) raises when the file is missing; the script
\* creates the four tables in a new file
RunSchemaRaises(f, db) == f.schema # "ok" \/ db.schema

RunSchema(db) == [db EXCEPT !.schema = TRUE]

\* df.to_sql(t, conn, if_exists="append", index=False): one transaction per table;
\* it raises, and rolls the table back, when the frame has a column the table lacks
\* or a row breaks a constraint (foreign keys are ON, line 115)
RECURSIVE InsertAll(_, _, _)
InsertAll(db, t, df) ==
    IF df = <<>> THEN [db |-> db, raised |-> FALSE]
    ELSE LET stmt == [op |-> "insert", t |-> t, row |-> DbRow(Head(df))]
         IN IF Rejects(db, stmt, TRUE) THEN [db |-> db, raised |-> TRUE]
            ELSE InsertAll(Apply(db, stmt), t, Tail(df))

ToSql(f, db, t, df) ==
    IF f[t].extraCol THEN [db |-> db, raised |-> TRUE]
    ELSE LET r == InsertAll(db, t, df)
         IN IF r.raised THEN [db |-> db, raised |-> TRUE] ELSE r

\* lines 119-122: the four tables in order; stops at the first that raises
RECURSIVE LoadTables(_, _, _, _)
LoadTables(f, db, frames, k) ==
    IF k > Len(Tables) THEN [db |-> db, stage |-> "done"]
    ELSE LET r == ToSql(f, db, Tables[k], frames[Tables[k]])
         IN IF r.raised THEN [db |-> r.db, stage |-> Tables[k]]
            ELSE LoadTables(f, r.db, frames, k + 1)

Counts(db) == [t \in TableSet |-> Cardinality(db[t])]

\* build_database from sources f, on day d, over store db:
\* [files, store, raised, stage, counts]
BuildResult(f, d, db) ==
    LET f1 == EnsureDummyDataIfMissing(f, d)
        frames == ReadCsvs(f1)
    IN IF frames.raised
       THEN [files |-> f1, store |-> db, raised |-> TRUE, stage |-> "read", counts |-> None]
       ELSE
       LET db1 == RemoveAndConnect(db)
       IN IF RunSchemaRaises(f1, db1)
          THEN [files |-> f1, store |-> db1, raised |-> TRUE, stage |-> "schema",
                counts |-> None]
          ELSE
          LET r == LoadTables(f1, RunSchema(db1), frames, 1)
          IN IF r.stage # "done"
             THEN [files |-> f1, store |-> r.db, raised |-> TRUE, stage |-> r.stage,
                   counts |-> None]
             ELSE [files |-> f1, store |-> r.db, raised |-> FALSE, stage |-> "done",
                   counts |-> Counts(r.db)]

Flip(l) == IF l.k = "build" THEN ~l.flip ELSE TRUE

\* the last two of the builds run since the sources or the store were last touched
Remember(rs, r) == IF Len(rs) < 2 THEN Append(rs, r) ELSE <<rs[2], r>>

\* "Build / Refresh DB" and "Rebuild DB Now": info = etl.build_database()
BuildDatabase ==
    LET r == BuildResult(files, today, store)
    IN /\ files' = r.files
       /\ store' = r.store
       /\ last' = [k |-> "build", flip |-> Flip(last), raised |-> r.raised,
                   stage |-> r.stage, counts |-> r.counts]
       /\ runs' = Remember(runs, [raised |-> r.raised, counts |-> r.counts,
                                  store |-> r.store,
                                  synthesized |-> \E t \in TableSet : ~files[t].exists])
       /\ UNCHANGED <<today, out, view, lib, ops>>

----------------------------------------------------------------------------
(* run_query and the forms that call it *)

\* operations (source edits, form submissions) in one behaviour
MaxOps == 2

\* get_conn: connect creates the file when it is missing, then PRAGMA foreign_keys = ON
GetConnNoPragma(db) == [db |-> [db EXCEPT !.exists = TRUE], fk |-> FALSE]

GetConn(db) == [db |-> [db EXCEPT !.exists = TRUE], fk |-> TRUE]

\* run_query: one execute; on an exception the connection is closed without a commit
RunQuery(db, stmt) ==
    LET conn == GetConn(db)
    IN IF ~conn.db.schema \/ Rejects(conn.db, stmt, conn.fk)
       THEN [db |-> conn.db, err |-> TRUE, attempts |-> 1]
       ELSE [db |-> Apply(conn.db, stmt), err |-> FALSE, attempts |-> 1]

\* the sidebar queries run before the tabs and outside any try: with a store file
\* that lacks the tables the script stops there and no form is drawn
TabsDrawn(db) == ~db.exists \/ db.schema

\* a form's submit handler: try run_query, st.success, except st.error
Submit(stmt) ==
    /\ TabsDrawn(store)
    /\ ops < MaxOps
    /\ ops' = ops + 1
    /\ LET r == RunQuery(store, stmt)
       IN /\ store' = r.db
          /\ last' = [k |-> "write", stmt |-> stmt, err |-> r.err, attempts |-> r.attempts,
                      violates |-> store.schema /\ Violates(store, stmt)]
    /\ runs' = <<>>
    /\ UNCHANGED <<files, today, out, view, lib>>

AddListing ==
    \E id \in {101, 103} : \E p \in {1, 3} :
        Submit([op |-> "insert", t |-> "food_listings",
                row |-> [Food_ID |-> id, Quantity |-> 5, Expiry_Date |-> Int64(today),
                         Provider_ID |-> p, Provider_Type |-> "Restaurant",
                         Location |-> "Mysuru", Food_Type |-> "Vegetarian",
                         Meal_Type |-> "Breakfast"]])

UpdateListing ==
    \E id \in {101, 103} :
        Submit([op |-> "update", t |-> "food_listings", key |-> id,
                set |-> [Quantity |-> 0, Expiry_Date |-> Int64(today)]])

DeleteListing ==
    \E id \in {101, 103} : Submit([op |-> "delete", t |-> "food_listings", key |-> id])

AddClaim ==
    \E id \in {1001, 1004} : \E fid \in {101, 103} : \E rid \in {1, 3} :
        Submit([op |-> "insert", t |-> "claims",
                row |-> [Claim_ID |-> id, Food_ID |-> fid, Receiver_ID |-> rid,
                         Status |-> "Pending", Timestamp |-> Int64(today)]])

UpdateClaim ==
    \E id \in {1001, 1004} :
        Submit([op |-> "update", t |-> "claims", key |-> id,
                set |-> [Status |-> "Completed"]])

DeleteClaim ==
    \E id \in {1001, 1004} : Submit([op |-> "delete", t |-> "claims", key |-> id])

AddProvider ==
    \E id \in {1, 3} :
        Submit([op |-> "insert", t |-> "providers",
                row |-> [Provider_ID |-> id, Type |-> "Restaurant", City |-> "Mysuru"]])

AddReceiver ==
    \E id \in {1, 3} :
        Submit([op |-> "insert", t |-> "receivers",
                row |-> [Receiver_ID |-> id, Type |-> "NGO", City |-> "Mysuru"]])

----------------------------------------------------------------------------
(* The environment: the files under ./data, schema.sql, the clock *)

\* rows somebody adds to a source: a new provider, a listing of that provider, a
\* listing with a blank provider, a claim on the new listing
SourceEdits(t) ==
    CASE t = "providers" -> {r \in ExtraRows(t) : r.Provider_ID = IntText(3)}
      [] t = "receivers" -> {}
      [] t = "food_listings" ->
           {r \in ExtraRows(t) : /\ r.Food_ID = IntText(103)
                                 /\ r.Provider_ID \in {IntText(3), BlankText}}
      [] t = "claims" ->
           {r \in ExtraRows(t) : /\ r.Claim_ID = IntText(1004)
                                 /\ r.Food_ID = IntText(103)
                                 /\ r.Receiver_ID = IntText(1)}

\* a row is added to a CSV (which is created if it was missing)
AppendSourceRow ==
    /\ ops < MaxOps
    /\ ops' = ops + 1
    /\ \E t \in TableSet : \E row \in SourceEdits(t) :
          files' = [files EXCEPT ![t] = [@ EXCEPT !.exists = TRUE, !.rows = @ \o <<row>>]]
    /\ runs' = <<>>
    /\ UNCHANGED <<today, out, store, last, view, lib>>

\* a CSV gets a column that the schema does not declare
AddUnknownColumn ==
    /\ ops < MaxOps
    /\ ops' = ops + 1
    /\ \E t \in TableSet :
          /\ files[t].exists /\ ~files[t].extraCol
          /\ files' = [files EXCEPT ![t].extraCol = TRUE]
    /\ runs' = <<>>
    /\ UNCHANGED <<today, out, store, last, view, lib>>

\* schema.sql is taken away
RemoveSchema ==
    /\ ops < MaxOps
    /\ ops' = ops + 1
    /\ files.schema = "ok"
    /\ files' = [files EXCEPT !.schema = "missing"]
    /\ runs' = <<>>
    /\ UNCHANGED <<today, out, store, last, view, lib>>

\* midnight UTC passes
Tick ==
    /\ ops < MaxOps
    /\ ops' = ops + 1
    /\ today' = today + 1
    /\ UNCHANGED <<files, out, store, last, runs, view, lib>>

Init ==
    /\ files = [providers |-> NoCsv, receivers |-> NoCsv, food_listings |-> NoCsv,
                claims |-> NoCsv, schema |-> "ok"]
    /\ today = Today0
    /\ out = None
    /\ store = NoStore
    /\ last = None
    /\ runs = <<>>
    /\ view = IdleView
    /\ lib = IdleLib
    /\ ops = 0

Next ==
    \/ BuildDatabase
    \/ AddListing \/ UpdateListing \/ DeleteListing
    \/ AddClaim \/ UpdateClaim \/ DeleteClaim
    \/ AddProvider \/ AddReceiver
    \/ AppendSourceRow \/ AddUnknownColumn \/ RemoveSchema \/ Tick

Spec == Init /\ [][Next]_vars

----------------------------------------------------------------------------
(* Claims about rebuilds and writes *)

\* C7: two builds in a row on unchanged sources give the same outcome, the same
\* per-table counts and the same store content, whatever the store held before and
\* also when the first of them had to write the sources.
C7_RebuildIdempotent ==
    Len(runs) = 2 =>
        /\ runs[2].raised = runs[1].raised
        /\ runs[2].counts = runs[1].counts
        /\ runs[2].store = runs[1].store

\* the first of two builds wrote the missing sources, the second read them, on a
\* later day
C7_Witness ==
    /\ Len(runs) = 2
    /\ runs[1].synthesized /\ ~runs[2].synthesized
    /\ ~runs[1].raised
    /\ runs[2].store.food_listings # {}
    /\ today > Today0

\* this step is a call of build_database
BuildStep == last'.k = "build" /\ (last.k # "build" \/ last'.flip # last.flip)

FailedInStore(l) == l.stage \in {"schema"} \cup TableSet

TablesFrom(k) == {Tables[j] : j \in k..Len(Tables)}

\* C8: when a rebuild fails applying the schema or appending a table, the call
\* raises and returns no counts, and what the store held before is gone: the store
\* has no table (schema) or holds only rows just loaded from the sources, the
\* failing table and the ones after it being empty.
C8_FailedRebuildDestroys ==
    [][ (BuildStep /\ FailedInStore(last')) =>
            /\ last'.raised /\ last'.counts = None
            /\ \A t \in TableSet : store'[t] \subseteq DbRows(ReadCsvs(files')[t])
            /\ (last'.stage = "schema" =>
                    ~store'.schema /\ \A t \in TableSet : store'[t] = {})
            /\ \A k \in 1..Len(Tables) :
                    last'.stage = Tables[k] => \A t \in TablesFrom(k) : store'[t] = {} ]_vars

\* a rebuild failed appending the claims and left a partly written store
C8_Witness ==
    /\ last.k = "build" /\ last.raised /\ last.stage = "claims"
    /\ store.exists /\ store.providers # {} /\ store.claims = {}

\* this step is a form submission
WriteStep == ops' = ops + 1 /\ files' = files /\ today' = today

\* C10: a write through run_query that violates a constraint of the store is
\* reported as an error, is executed once, and leaves the store as it was.
C10_ViolationRejected ==
    [][ (WriteStep /\ last'.violates) =>
            /\ last'.err
            /\ last'.attempts = 1
            /\ store' = store ]_vars

\* a listing for a provider that does not exist was refused
C10_Witness ==
    /\ last.k = "write" /\ last.violates /\ last.err
    /\ last.stmt.op = "insert" /\ last.stmt.t = "food_listings"
    /\ store.schema
    /\ MissingParent(store, "food_listings", last.stmt.row)
    /\ ~DuplicateKey(store, "food_listings", last.stmt.row)

----------------------------------------------------------------------------
(* The SQL Queries tab.  queries.sql is text; a statement is the sequence of its
   tokens: a leading keyword ("select", "with", "create") or a comment ("--"),
   the named placeholders ":city" and ":days", and "bad" for text SQLite cannot
   prepare.  The empty sequence is blank text between two semicolons. *)

MaxStmts == 2

Heads == {"select", "with", "create", "--"}

SampleBodies ==
    {<<>>, <<":city">>, <<":days">>, <<"bad">>, <<":city", ":days">>,
     <<":days", ":city">>, <<":city", ":city">>, <<":days", "bad">>}

SampleStatements == {<<>>} \cup {<<h>> \o b : h \in Heads, b \in SampleBodies}

\* raw.split(";") with the blank pieces dropped
Statements(raw) == SelectSeq(raw, LAMBDA st : st # <<>>)

\* stmt.lower().startswith(("select", "with"))
IsRead(stmt) == stmt[1] \in {"select", "with"}

Has(stmt, tok) == \E j \in DOMAIN stmt : stmt[j] = tok

\* stmt.replace(":city", "?") and stmt.replace(":days", "?")
Substitute(stmt) ==
    [j \in DOMAIN stmt |-> IF stmt[j] \in {":city", ":days"} THEN "?" ELSE stmt[j]]

\* params = (), then (default_city,), then (7,)
Params(stmt, city) ==
    LET p == IF Has(stmt, ":city") THEN <<[str |-> city]>> ELSE <<>>
    IN IF Has(stmt, ":days") THEN <<[int |-> 7]>> ELSE p

Count(stmt, tok) == Cardinality({j \in DOMAIN stmt : stmt[j] = tok})

\* sqlite3 raises when the text cannot be prepared or when the number of values
\* differs from the number of "?"
QueryRaises(text, params) == Has(text, "bad") \/ Count(text, "?") # Len(params)

\* the body of the loop for one read statement
RunStatement(i, stmt, city) ==
    LET text == Substitute(stmt)
        params == Params(stmt, city)
    IN [query |-> i, stmt |-> text, params |-> params,
        kind |-> IF QueryRaises(text, params) THEN "error" ELSE "dataframe"]

AfterEntryAbort(entry, rest) == IF entry.kind = "error" THEN <<entry>> ELSE <<entry>> \o rest

\* try/except inside the loop: the next statement runs whatever the entry was
AfterEntry(entry, rest) == <<entry>> \o rest

RECURSIVE Loop(_, _, _)
Loop(stmts, i, city) ==
    IF i > Len(stmts) THEN <<>>
    ELSE IF ~IsRead(stmts[i]) THEN Loop(stmts, i + 1, city)
    ELSE AfterEntry(RunStatement(i, stmts[i], city), Loop(stmts, i + 1, city))

\* SELECT City FROM providers WHERE City IS NOT NULL LIMIT 1, else "Bengaluru";
\* without ORDER BY any provider's city may come first
DefaultCities(db) ==
    IF db.providers = {} THEN {"Bengaluru"} ELSE {r.City : r \in db.providers}

\* One run of the page up to and including the tab.  The sidebar queries run first
\* and outside any try: a store file without tables stops the script there, so the
\* tab's own lookup of the default city finds the providers table.
SqlQueriesTab ==
    /\ lib.k = "library"
    /\ \/ /\ store.exists /\ ~store.schema
          /\ lib' = [k |-> "stopped", raw |-> lib.raw]
       \/ /\ ~store.exists
          /\ lib' = [k |-> "report", raw |-> lib.raw, shown |-> FALSE, entries |-> <<>>]
       \/ /\ store.exists /\ store.schema
          /\ \E city \in DefaultCities(store) :
                lib' = [k |-> "report", raw |-> lib.raw, shown |-> TRUE,
                        entries |-> Loop(Statements(lib.raw), 1, city)]
    /\ UNCHANGED <<files, today, out, store, last, runs, view, ops>>

LibStores ==
    {NoStore, EmptyStore, [EmptyStore EXCEPT !.schema = TRUE],
     [EmptyStore EXCEPT !.schema = TRUE, !.providers = QueryProviders]}

InitLib ==
    /\ today = Today0
    /\ files = FixtureFiles(Today0)
    /\ out = None
    /\ store \in LibStores
    /\ last = None
    /\ runs = <<>>
    /\ view = IdleView
    /\ \E n \in 0..MaxStmts : \E raw \in [1..n -> SampleStatements] :
          lib = [k |-> "library", raw |-> raw]
    /\ ops = 0

NextLib == SqlQueriesTab

SpecLib == InitLib /\ [][NextLib]_vars

\* C9: once the tab has run over the library, every read statement has exactly one
\* entry, in the order of the library: an error carrying the statement's text when
\* it failed, its table otherwise; a failure never keeps a later statement from
\* being run.
C9_QueriesIndependent ==
    (lib.k = "report" /\ lib.shown) =>
        LET S == Statements(lib.raw)
            E == lib.entries
        IN /\ \A i \in 1..Len(S) :
                 IsRead(S[i]) =>
                     /\ Cardinality({j \in DOMAIN E : E[j].query = i}) = 1
                     /\ \A j \in DOMAIN E : E[j].query = i =>
                           /\ E[j].stmt = Substitute(S[i])
                           /\ E[j].kind = "error" <=>
                                 \/ Has(S[i], "bad")
                                 \/ Count(S[i], ":city") + Count(S[i], ":days")
                                       # Len(E[j].params)
           /\ \A j \in DOMAIN E : E[j].query \in 1..Len(S) /\ IsRead(S[E[j].query])
           /\ \A j, k \in DOMAIN E : j < k => E[j].query < E[k].query

\* the first read statement failed and the one after it was still run and shown
C9_Witness ==
    /\ lib.k = "report" /\ lib.shown
    /\ Len(lib.entries) = 2
    /\ lib.entries[1].kind = "error" /\ Has(lib.entries[1].stmt, "bad")
    /\ lib.entries[2].kind = "dataframe"

----------------------------------------------------------------------------
(* Claims about the default fixture, the placeholders and the store file *)

NoSources(f) == \A t \in TableSet : ~f[t].exists

FixtureCounts == [providers |-> 2, receivers |-> 2, food_listings |-> 2, claims |-> 3]

\* C11: a build that finds none of the four sources writes the four files; with the
\* schema in place it completes and the store holds 2 providers, 2 receivers,
\* 2 listings and 3 claims of the three statuses; the files then exist, so the next
\* build reads them and synthesizes nothing.
C11_DefaultFixture ==
    [][ /\ (BuildStep /\ NoSources(files)) =>
              /\ \A t \in TableSet : files'[t] = Csv(Dummy(t, today))
              /\ \A d \in {today, today + 1} : EnsureDummyDataIfMissing(files', d) = files'
              /\ files.schema = "ok" =>
                    /\ ~last'.raised
                    /\ last'.counts = FixtureCounts
                    /\ Counts(store') = FixtureCounts
                    /\ {r.Status : r \in store'.claims} = Statuses
        /\ (BuildStep /\ Len(runs') = 2 /\ runs'[1].synthesized) =>
              /\ ~runs'[2].synthesized
              /\ files' = files ]_vars

\* the store was built from nothing and a second build, a day later, read the files
\* written by the first
C11_Witness ==
    /\ Len(runs) = 2
    /\ runs[1].synthesized /\ ~runs[2].synthesized
    /\ runs[1].counts = FixtureCounts /\ runs[2].counts = FixtureCounts
    /\ {r.Status : r \in store.claims} = Statuses
    /\ \A t \in TableSet : files[t] = Csv(Dummy(t, Today0))
    /\ today = Today0 + 1 /\ ops = 1

Placeholder(tok) == tok \in {":city", ":days"}

\* the position, among the "?" of the executed text, of the placeholder at j
Rank(stmt, j) == Cardinality({k \in 1..j : Placeholder(stmt[k])})

\* C12 (as claimed): for every statement run by the tab, the values bound are as
\* many as the "?" of the executed text, every ":city" is bound to the default city
\* and every ":days" to 7.
C12_PlaceholdersBound ==
    (lib.k = "report" /\ lib.shown) =>
        \A e \in {lib.entries[j] : j \in DOMAIN lib.entries} :
            LET src == Statements(lib.raw)[e.query]
            IN /\ Len(e.params) = Count(e.stmt, "?")
               /\ \A j \in DOMAIN src :
                     /\ src[j] = ":city" =>
                           /\ Rank(src, j) <= Len(e.params)
                           /\ \E c \in DefaultCities(store) :
                                 e.params[Rank(src, j)] = [str |-> c]
                     /\ src[j] = ":days" =>
                           /\ Rank(src, j) <= Len(e.params)
                           /\ e.params[Rank(src, j)] = [int |-> 7]

\* C13 (as claimed): whenever the store file exists it holds the four tables, after
\* any sequence of rebuilds and form submissions.
C13_ExistingStoreHasTables == store.exists => store.schema

====
